---- MODULE Spec2Model ----
(***************************************************************************)
(* Model of the report aggregation engine of pytreasurydirect              *)
(* (src/pytreasurydirect/treasury_direct_apy.py): the sort-key functions,  *)
(* TreasuryDirect._normalize_dates, TreasuryDirect._remove_pyobj_helpers   *)
(* and TreasuryDirect.produce_report, and of the construction of FedSoma.  *)
(*                                                                         *)
(* Python values are modelled as records [type, s, t]: a str keeps its     *)
(* text in s, a datetime keeps <<year, month, day, hour, minute, second>>  *)
(* in t, None has neither.  A raw issue (a dict as the caller built it) is *)
(* the sequence of its items in enumeration order; a dict built by the     *)
(* engine is a function from field names to values, so that dict equality  *)
(* is Python's (independent of insertion order).                           *)
(***************************************************************************)
EXTENDS Integers, Sequences, FiniteSets, TLC

VARIABLES
    results,              \* produce_report's argument: the caller's list of raw issues
    sort_criteria_func,   \* produce_report's key function, [base, attribute]
    sort_name,            \* produce_report's sort_name
    soma,                 \* produce_report's soma flag
    deduped,              \* the list handed to _normalize_dates (line 524-526)
    normalized,           \* what _normalize_dates returned, <<>> when it raised
    outcome,              \* "none" before a call, "returned", or the exception raised
    report,               \* the list produce_report returned, <<>> when it raised
    key_issue,            \* argument of a directly applied sort-key function
    key_func,             \* the sort-key function applied to key_issue
    key_result,           \* what it returned or raised
    today,                \* datetime.datetime.today() when FedSoma is constructed
    as_of,                \* the as_of argument of FedSoma.__init__
    self_as_of            \* FedSoma's as_of attribute, None before it is set

vars == <<results, sort_criteria_func, sort_name, soma, deduped, normalized,
          outcome, report, key_issue, key_func, key_result, today, as_of,
          self_as_of>>

(***************************************************************************)
(* Bounds of the model.                                                    *)
(***************************************************************************)
MaxRecs == 2
FirstYear == 2018
LastYear == 2020

(***************************************************************************)
(* Python values.                                                          *)
(***************************************************************************)
Str(text) == [type |-> "str", s |-> text, t |-> <<>>]
DateTime(tuple) == [type |-> "datetime", s |-> "", t |-> tuple]
Tuple(tuple) == [type |-> "tuple", s |-> "", t |-> tuple]
None == [type |-> "NoneType", s |-> "", t |-> <<>>]

\* bool(v): None and the empty string are falsy
Truthy(v) == v.type = "datetime" \/ (v.type = "str" /\ v.s # "")

\* dict.get(key, None)
Get(d, k) == IF k \in DOMAIN d THEN d[k] ELSE None

\* d[key] = value
DictSet(d, k, v) == (k :> v) @@ d

Range(seq) == {seq[i] : i \in DOMAIN seq}

\* a call that returned value, and a call that raised
Returned(value) == [raised |-> "", value |-> value]
Raised(exception, value) == [raised |-> exception, value |-> value]

(***************************************************************************)
(* Strings: code points, comparison, decimal conversion.                   *)
(***************************************************************************)
\* the characters the model's strings use, in code point order
Ascii == "-/0123456789:ABCDEFGHIJKLMNOPQRSTUVWXYZ_abcdefghijklmnopqrstuvwxyz"

Char(str, i) == SubSeq(str, i, i)

RECURSIVE OrdTable(_)
OrdTable(n) == IF n = 0 THEN <<>> ELSE (Char(Ascii, n) :> n) @@ OrdTable(n - 1)

\* the rank of a character among the characters of Ascii
Ord == OrdTable(Len(Ascii))

RECURSIVE StrLessFrom(_, _, _)
StrLessFrom(a, b, i) ==
    IF i > Len(b) THEN FALSE
    ELSE IF i > Len(a) THEN TRUE
    ELSE IF Char(a, i) = Char(b, i) THEN StrLessFrom(a, b, i + 1)
    ELSE Ord[Char(a, i)] < Ord[Char(b, i)]

\* a < b on str
StrLess(a, b) == StrLessFrom(a, b, 1)

\* str.endswith
EndsWith(str, suffix) ==
    /\ Len(str) >= Len(suffix)
    /\ SubSeq(str, Len(str) - Len(suffix) + 1, Len(str)) = suffix

DigitChars == <<"0", "1", "2", "3", "4", "5", "6", "7", "8", "9">>

RECURSIVE DigitTable(_)
DigitTable(n) == IF n = 0 THEN <<>> ELSE (DigitChars[n] :> n - 1) @@ DigitTable(n - 1)

DigitValues == DigitTable(Len(DigitChars))

IsDigit(c) == c \in DOMAIN DigitValues

DigitValue(c) == DigitValues[c]

AllDigits(str) == Len(str) > 0 /\ \A i \in 1..Len(str) : IsDigit(Char(str, i))

RECURSIVE DigitsToInt(_, _)
DigitsToInt(str, n) ==
    IF n = 0 THEN 0
    ELSE 10 * DigitsToInt(str, n - 1) + DigitValue(Char(str, n))

\* int(v) raises for anything that is not a number
IntError(v) ==
    IF v.type # "str" THEN "TypeError"
    ELSE IF ~AllDigits(v.s) THEN "ValueError"
    ELSE ""

\* int(v) for a str of decimal digits
Int_(v) == DigitsToInt(v.s, Len(v.s))

RECURSIVE IntToStr(_)
\* str(n) for n >= 0
IntToStr(n) ==
    IF n < 10 THEN DigitChars[n + 1]
    ELSE IntToStr(n \div 10) \o DigitChars[(n % 10) + 1]

RECURSIVE ZeroPad(_, _)
ZeroPad(str, width) == IF Len(str) >= width THEN str ELSE ZeroPad("0" \o str, width)

(***************************************************************************)
(* Calendar.                                                               *)
(***************************************************************************)
IsLeap(y) == (y % 4 = 0 /\ y % 100 # 0) \/ y % 400 = 0

DaysInMonth(y, m) ==
    IF m = 2 THEN (IF IsLeap(y) THEN 29 ELSE 28)
    ELSE IF m \in {4, 6, 9, 11} THEN 30 ELSE 31

RECURSIVE DaysBeforeMonth(_, _)
DaysBeforeMonth(y, m) ==
    IF m = 1 THEN 0 ELSE DaysBeforeMonth(y, m - 1) + DaysInMonth(y, m - 1)

\* datetime.timetuple().tm_yday
tm_yday(dt) == DaysBeforeMonth(dt.t[1], dt.t[2]) + dt.t[3]

RECURSIVE TupleLessFrom(_, _, _)
TupleLessFrom(a, b, i) ==
    IF i > Len(b) THEN FALSE
    ELSE IF i > Len(a) THEN TRUE
    ELSE IF a[i] = b[i] THEN TupleLessFrom(a, b, i + 1)
    ELSE a[i] < b[i]

\* a < b on tuples of int (and on datetime, whose fields compare in order)
TupleLess(a, b) == TupleLessFrom(a, b, 1)

(***************************************************************************)
(* datetime.strptime(text, '%Y-%m-%dT%H:%M:%S') on the fixed-width form    *)
(* YYYY-MM-DDTHH:MM:SS; any other text the model uses raises ValueError.   *)
(***************************************************************************)
treasury_date_fmt == "%Y-%m-%dT%H:%M:%S"

Field(text, from, to) == DigitsToInt(SubSeq(text, from, to), to - from + 1)

\* the six numbers of a text of the form dddd-dd-ddTdd:dd:dd
Fields(text) ==
    <<Field(text, 1, 4), Field(text, 6, 7), Field(text, 9, 10),
      Field(text, 12, 13), Field(text, 15, 16), Field(text, 18, 19)>>

HasDateForm(text) ==
    /\ Len(text) = 19
    /\ Char(text, 5) = "-" /\ Char(text, 8) = "-" /\ Char(text, 11) = "T"
    /\ Char(text, 14) = ":" /\ Char(text, 17) = ":"
    /\ \A i \in (1..19) \ {5, 8, 11, 14, 17} : IsDigit(Char(text, i))

IsDateTime(t) ==
    /\ t[1] >= 1
    /\ t[2] >= 1 /\ t[2] <= 12
    /\ t[3] >= 1 /\ t[3] <= DaysInMonth(t[1], t[2])
    /\ t[4] <= 23 /\ t[5] <= 59 /\ t[6] <= 59

\* strptime does not raise
strptime_ok(text) == HasDateForm(text) /\ IsDateTime(Fields(text))

strptime_(text) == DateTime(Fields(text))

\* datetime.strftime(dt, '%Y-%m-%d')
strftime_(dt) ==
    ZeroPad(IntToStr(dt.t[1]), 4) \o "-" \o ZeroPad(IntToStr(dt.t[2]), 2)
        \o "-" \o ZeroPad(IntToStr(dt.t[3]), 2)

(***************************************************************************)
(* The sort-key functions (lines 27-85).                                   *)
(***************************************************************************)
RECURSIVE JoinFrom(_, _)
JoinFrom(key_tuple, i) ==
    IF i > Len(key_tuple) THEN ""
    ELSE IF i = Len(key_tuple) THEN IntToStr(key_tuple[i])
    ELSE IntToStr(key_tuple[i]) \o "-" \o JoinFrom(key_tuple, i + 1)

\* '-'.join(map(str, key_tuple))
sort_by_aggregation_normalization(key_tuple) == JoinFrom(key_tuple, 1)

sort_by_date_base(issue, attribute) ==
    <<issue[attribute].t[1], issue[attribute].t[2], issue[attribute].t[3]>>

sort_by_week_base(issue, attribute) ==
    <<issue[attribute].t[1], (tm_yday(issue[attribute]) \div 7) + 1>>

\* sort_by_month_base returning the day of the month for the month
sort_by_month_base_Day(issue, attribute) ==
    <<issue[attribute].t[1], issue[attribute].t[3]>>

sort_by_month_base(issue, attribute) ==
    <<issue[attribute].t[1], issue[attribute].t[2]>>

\* the twelve functools.partial applications of lines 63-81
Bases == {"date", "week", "month"}

Attributes ==
    {"actual_maturity_pyobj", "issueDate_pyobj", "auctionDate_pyobj",
     "announcementDate_pyobj"}

SortFuncs == [base : Bases, attribute : Attributes]

\* what calling the key function f on issue raises, "" when it returns
SortKeyError(f, issue) ==
    IF f.attribute \notin DOMAIN issue THEN "KeyError"
    ELSE IF issue[f.attribute].type # "datetime" THEN "AttributeError"
    ELSE ""

\* what the key function f returns on issue
SortKey(f, issue) ==
    CASE f.base = "date" -> sort_by_date_base(issue, f.attribute)
      [] f.base = "week" -> sort_by_week_base(issue, f.attribute)
      [] f.base = "month" -> sort_by_month_base(issue, f.attribute)

sort_by_term(issue) == issue["securityTerm"]

(***************************************************************************)
(* sorted(seq, key=...) and itertools.groupby(seq, key=...), on the        *)
(* sequence of the pairs <<key(e), e>> of the elements e of seq.           *)
(***************************************************************************)
\* the bucket keys compared as the strings they are rendered to
BucketLess_Rendered(a, b) ==
    StrLess(sort_by_aggregation_normalization(a), sort_by_aggregation_normalization(b))

\* a < b on the keys the key functions return
BucketLess(a, b) == TupleLess(a, b)

\* a < b on two keys: two str, or two tuples of int
KeyLess(a, b) == IF a.type = "str" THEN StrLess(a.s, b.s) ELSE BucketLess(a.t, b.t)

InsertAt(sorted, pair, pos) ==
    SubSeq(sorted, 1, pos) \o <<pair>> \o SubSeq(sorted, pos + 1, Len(sorted))

\* sorted is stable: the pair goes behind every pair whose key is not greater
Insert(sorted, pair) ==
    InsertAt(sorted, pair,
             Cardinality({j \in DOMAIN sorted : ~KeyLess(pair[1], sorted[j][1])}))

RECURSIVE SortedFrom(_, _)
SortedFrom(pairs, n) ==
    IF n = 0 THEN <<>> ELSE Insert(SortedFrom(pairs, n - 1), pairs[n])

\* sorted(seq, key=...)
Sorted(pairs) == SortedFrom(pairs, Len(pairs))

\* Extend with a joining element taking the place of the group it joins
Extend_Replace(groups, pair) ==
    IF groups # <<>> /\ groups[Len(groups)].key = pair[1]
    THEN [groups EXCEPT ![Len(groups)].group = <<pair[2]>>]
    ELSE Append(groups, [key |-> pair[1], group |-> <<pair[2]>>])

\* an element whose key equals the key of the current group joins it, any
\* other element opens a new group
Extend(groups, pair) ==
    IF groups # <<>> /\ groups[Len(groups)].key = pair[1]
    THEN [groups EXCEPT ![Len(groups)].group = Append(@, pair[2])]
    ELSE Append(groups, [key |-> pair[1], group |-> <<pair[2]>>])

RECURSIVE GroupsFrom(_, _)
GroupsFrom(pairs, n) ==
    IF n = 0 THEN <<>> ELSE Extend(GroupsFrom(pairs, n - 1), pairs[n])

\* itertools.groupby(seq, key=...)
GroupBy(pairs) == GroupsFrom(pairs, Len(pairs))

RECURSIVE ElementsFrom(_, _)
ElementsFrom(pairs, n) ==
    IF n = 0 THEN <<>> ELSE Append(ElementsFrom(pairs, n - 1), pairs[n][2])

\* the elements of a sequence of pairs <<key, element>>
Elements(pairs) == ElementsFrom(pairs, Len(pairs))

RECURSIVE FirstErrorFrom(_, _)
FirstErrorFrom(errors, i) ==
    IF i > Len(errors) THEN ""
    ELSE IF errors[i] # "" THEN errors[i]
    ELSE FirstErrorFrom(errors, i + 1)

\* the exception a sequence of steps raises: that of its first failing step
FirstError(errors) == FirstErrorFrom(errors, 1)

(***************************************************************************)
(* Deduplication (lines 524-526):                                          *)
(*   dict(t) for t in set([tuple(sorted(res.items())) for res in results]) *)
(***************************************************************************)
RECURSIVE ItemPairs(_, _)
\* the items of a dict with their sort keys: an item is a tuple (key, value)
\* and the keys of a dict are distinct, so that the comparison of two items
\* is decided by their keys
ItemPairs(res, n) ==
    IF n = 0 THEN <<>> ELSE Append(ItemPairs(res, n - 1), <<Str(res[n][1]), res[n]>>)

\* tuple(res.items()): the items in enumeration order
SortedItems_Unsorted(res) == res

\* tuple(sorted(res.items()))
SortedItems(res) == Elements(Sorted(ItemPairs(res, Len(res))))

DedupSet(res_list) == {SortedItems(res_list[i]) : i \in DOMAIN res_list}

RECURSIVE DictFrom(_, _)
DictFrom(t, n) == IF n = 0 THEN <<>> ELSE DictSet(DictFrom(t, n - 1), t[n][1], t[n][2])

\* dict(t)
ToDict(t) == DictFrom(t, Len(t))

\* the orders in which a set can be iterated
Orderings(S) == {o \in [1..Cardinality(S) -> S] : Range(o) = S}

RECURSIVE DedupedList(_, _)
\* lines 524-526 when the set of line 525 is iterated in the order `order':
\* the first n dicts of the list handed to _normalize_dates
DedupedList(order, n) ==
    IF n = 0 THEN <<>> ELSE Append(DedupedList(order, n - 1), ToDict(order[n]))

(***************************************************************************)
(* TreasuryDirect._normalize_dates (lines 401-428).                        *)
(***************************************************************************)
date_keys_to_normalize ==
    <<"issueDate", "announcementDate", "auctionDate", "maturingDate", "maturityDate">>

\* lines 412-414
SetParsed(issue, date_attr, date_attr_pyobj) ==
    DictSet(DictSet(issue, date_attr \o "_pyobj", date_attr_pyobj),
            date_attr, Str(strftime_(date_attr_pyobj)))

\* lines 407-414 leaving alone a date that does not parse
ParseDate_Skip(issue, date_attr) ==
    IF ~Truthy(Get(issue, date_attr)) THEN Returned(issue)
    ELSE IF ~strptime_ok(issue[date_attr].s) THEN Returned(issue)
    ELSE Returned(SetParsed(issue, date_attr, strptime_(issue[date_attr].s)))

\* lines 407-414 for one date field: strptime raises ValueError on a text
\* that does not match the format (the values of the raw issues are all str)
ParseDate(issue, date_attr) ==
    IF ~Truthy(Get(issue, date_attr)) THEN Returned(issue)
    ELSE IF ~strptime_ok(issue[date_attr].s) THEN Raised("ValueError", issue)
    ELSE Returned(SetParsed(issue, date_attr, strptime_(issue[date_attr].s)))

\* the loop goes on to the next date field unless strptime has raised
ParseNext(before, date_attr) ==
    IF before.raised # "" THEN before ELSE ParseDate(before.value, date_attr)

RECURSIVE ParseDates(_, _)
\* the loop of lines 406-414 over the first n date fields
ParseDates(issue, n) ==
    IF n = 0 THEN Returned(issue)
    ELSE ParseNext(ParseDates(issue, n - 1), date_keys_to_normalize[n])

\* lines 419-423 with the comparison of line 420 turned round
PickMaturity_Earlier(maturing, maturity) ==
    IF Truthy(maturing) /\ Truthy(maturity)
    THEN (IF TupleLess(maturing.t, maturity.t) THEN maturing ELSE maturity)
    ELSE (IF Truthy(maturing) THEN maturing ELSE maturity)

\* lines 419-423
PickMaturity(maturing, maturity) ==
    IF Truthy(maturing) /\ Truthy(maturity)
    THEN (IF TupleLess(maturity.t, maturing.t) THEN maturing ELSE maturity)
    ELSE (IF Truthy(maturing) THEN maturing ELSE maturity)

\* lines 416-423
ActualMaturity(issue) ==
    PickMaturity(Get(issue, "maturingDate_pyobj"), Get(issue, "maturityDate_pyobj"))

\* lines 425-426: strftime raises TypeError on None
SetActualMaturity(issue, actual_maturity) ==
    IF actual_maturity.type # "datetime"
    THEN Raised("TypeError", DictSet(issue, "actual_maturity_pyobj", actual_maturity))
    ELSE Returned(DictSet(DictSet(issue, "actual_maturity_pyobj", actual_maturity),
                          "actual_maturity", Str(strftime_(actual_maturity))))

WithActualMaturity(issue) == SetActualMaturity(issue, ActualMaturity(issue))

\* lines 405-426 for one issue
MaturityNext(parsed) ==
    IF parsed.raised # "" THEN parsed ELSE WithActualMaturity(parsed.value)

NormalizeIssue(issue) == MaturityNext(ParseDates(issue, Len(date_keys_to_normalize)))

\* the list takes up one more normalized issue
AppendIssue(done, one) ==
    IF one.raised # "" THEN Raised(one.raised, <<>>)
    ELSE Returned(Append(done, one.value))

\* the loop goes on to the next issue unless normalizing one has raised
NormalizeNext(done, issue) ==
    IF done.raised # "" THEN done ELSE AppendIssue(done.value, NormalizeIssue(issue))

RECURSIVE NormalizeAll(_, _)
\* the loop of lines 404-426 over the first n issues
NormalizeAll(issues, n) ==
    IF n = 0 THEN Returned(<<>>)
    ELSE NormalizeNext(NormalizeAll(issues, n - 1), issues[n])

\* _normalize_dates(issues): the issues are normalized in order and the
\* first one that raises ends the call
_normalize_dates(issues) == NormalizeAll(issues, Len(issues))

(***************************************************************************)
(* TreasuryDirect._remove_pyobj_helpers (lines 452-460).                   *)
(***************************************************************************)
\* only the helpers of the five date fields are taken for helpers
IsPyobjKey_DateOnly(key) == EndsWith(key, "Date_pyobj")

\* key.endswith('_pyobj')
IsPyobjKey(key) == EndsWith(key, "_pyobj")

RemovePyobj(issue) ==
    [key \in {k \in DOMAIN issue : ~IsPyobjKey(k)} |-> issue[key]]

RECURSIVE RemoveAll(_, _)
RemoveAll(issues, n) ==
    IF n = 0 THEN <<>> ELSE Append(RemoveAll(issues, n - 1), RemovePyobj(issues[n]))

_remove_pyobj_helpers(issues) == RemoveAll(issues, Len(issues))

(***************************************************************************)
(* TreasuryDirect.produce_report (lines 521-595).                          *)
(***************************************************************************)
\* int(issue.get(field, 0)): a missing amount counts as zero
AmountOf_Default(issue, field) ==
    IF field \notin DOMAIN issue THEN Returned(0)
    ELSE IF IntError(issue[field]) # "" THEN Raised(IntError(issue[field]), 0)
    ELSE Returned(Int_(issue[field]))

\* int(issue[field]): KeyError without the field, ValueError on a text
\* that is not a number
AmountOf(issue, field) ==
    IF field \notin DOMAIN issue THEN Raised("KeyError", 0)
    ELSE IF IntError(issue[field]) # "" THEN Raised(IntError(issue[field]), 0)
    ELSE Returned(Int_(issue[field]))

\* total + amount
AddAmount(total, amount) ==
    IF amount.raised # "" THEN amount ELSE Returned(total + amount.value)

\* the sum goes on to the next issue unless int has raised
SumNext(total, issue, field) ==
    IF total.raised # "" THEN total
    ELSE AddAmount(total.value, AmountOf(issue, field))

RECURSIVE SumFrom(_, _, _)
SumFrom(issues, field, n) ==
    IF n = 0 THEN Returned(0)
    ELSE SumNext(SumFrom(issues, field, n - 1), issues[n], field)

\* sum(int(i[field]) for i in issues)
SumOf(issues, field) == SumFrom(issues, field, Len(issues))

\* what sorted(issues, key=key function f) raises
SortError(f, issues) ==
    FirstError([i \in DOMAIN issues |-> SortKeyError(f, issues[i])])

\* what sorted(issues, key=sort_by_term) raises
TermSortError(issues) ==
    FirstError([i \in DOMAIN issues |->
                   IF "securityTerm" \notin DOMAIN issues[i] THEN "KeyError" ELSE ""])

RECURSIVE TermPairs(_, _)
\* the issues with their keys sort_by_term(issue)
TermPairs(issues, n) ==
    IF n = 0 THEN <<>>
    ELSE Append(TermPairs(issues, n - 1), <<sort_by_term(issues[n]), issues[n]>>)

\* sorted(issues, key=sort_by_term) of line 561
SortedByTerm(issues) == Sorted(TermPairs(issues, Len(issues)))

\* lines 560-561: groupby(sorted(issues, key=sort_by_term), key=sort_by_term)
TermGroups(issues) == GroupBy(SortedByTerm(issues))

\* d[key] = value on a dict whose insertion order is observable
OrderedSet(d, k, v) ==
    IF \E i \in DOMAIN d : d[i][1] = k
    THEN [i \in DOMAIN d |-> IF d[i][1] = k THEN <<k, v>> ELSE d[i]]
    ELSE Append(d, <<k, v>>)

\* what the body of the loop of lines 573-591 raises for one term
TermError(sm, term_issues) ==
    FirstError(<<SumOf(term_issues, "offeringAmount").raised,
                 IF sm THEN SumOf(term_issues, "soma_holding_amount").raised ELSE "">>)

\* lines 577-591: the Term Entry of the issues term_isues_date
TermEntryOf(name, sm, term_isues_date) ==
    (name \o "_term_total" :> SumOf(term_isues_date, "offeringAmount").value)
        @@ (IF sm
            THEN ("soma_" \o name \o "_term_total")
                     :> SumOf(term_isues_date, "soma_holding_amount").value
            ELSE <<>>)
        @@ ("issues" :> _remove_pyobj_helpers(term_isues_date))

RECURSIVE CriteriaPairs(_, _, _)
\* the issues with their keys sort_criteria_func(issue)
CriteriaPairs(f, issues, n) ==
    IF n = 0 THEN <<>>
    ELSE Append(CriteriaPairs(f, issues, n - 1), <<Tuple(SortKey(f, issues[n])), issues[n]>>)

\* sorted(issues, key=sort_criteria_func) of lines 529 and 576
SortedByCriteria(f, issues) == Sorted(CriteriaPairs(f, issues, Len(issues)))

\* lines 574-591 for one term
TermEntry(f, name, sm, term_issues) ==
    TermEntryOf(name, sm, Elements(SortedByCriteria(f, term_issues)))

\* AddTerm with the totals of lines 580 and 587 assigned instead of added
AddTerm_Assign(grouped_data, name, sm, term, entry) ==
    [k \in DOMAIN grouped_data |->
        IF k = name \o "_issues" THEN OrderedSet(grouped_data[k], term, entry)
        ELSE IF k = name \o "_total" THEN entry[name \o "_term_total"]
        ELSE IF sm /\ k = "soma_" \o name \o "_total"
             THEN entry["soma_" \o name \o "_term_total"]
        ELSE grouped_data[k]] @@ <<>>

\* lines 574, 579, 580, 586, 587, 590: the Bucket Entry takes up a Term Entry
AddTerm(grouped_data, name, sm, term, entry) ==
    [k \in DOMAIN grouped_data |->
        IF k = name \o "_issues" THEN OrderedSet(grouped_data[k], term, entry)
        ELSE IF k = name \o "_total" THEN grouped_data[k] + entry[name \o "_term_total"]
        ELSE IF sm /\ k = "soma_" \o name \o "_total"
             THEN grouped_data[k] + entry["soma_" \o name \o "_term_total"]
        ELSE grouped_data[k]] @@ <<>>

RECURSIVE FillTerms(_, _, _, _, _, _)
\* the Bucket Entry after the loop of lines 573-591 has gone through n terms
FillTerms(f, name, sm, groups, n, grouped_data) ==
    IF n = 0 THEN grouped_data
    ELSE AddTerm(FillTerms(f, name, sm, groups, n - 1, grouped_data), name, sm,
                 groups[n].key.s, TermEntry(f, name, sm, groups[n].group))

\* lines 563-571: the Bucket Entry before its terms are filled in
EmptyBucket(name, sm, sort_criteria) ==
    ("timeframe" :> sort_by_aggregation_normalization(sort_criteria))
        @@ (name \o "_total" :> 0)
        @@ (IF sm THEN ("soma_" \o name \o "_total") :> 0 ELSE <<>>)
        @@ (name \o "_issues" :> <<>>)

TermsError(sm, groups) ==
    FirstError([g \in DOMAIN groups |-> TermError(sm, groups[g].group)])

\* what the body of the loop of lines 545-593 raises for one bucket
BucketError(sm, issues) ==
    IF TermSortError(issues) # "" THEN TermSortError(issues)
    ELSE TermsError(sm, TermGroups(issues))

FilledBucket(f, name, sm, sort_criteria, groups) ==
    FillTerms(f, name, sm, groups, Len(groups), EmptyBucket(name, sm, sort_criteria))

\* lines 545-593 for one bucket: the Bucket Entry
BucketEntry(f, name, sm, sort_criteria, issues) ==
    FilledBucket(f, name, sm, sort_criteria, TermGroups(issues))

\* lines 528-530: groupby(sorted(issues, key=f), key=f)
Buckets(f, issues) == GroupBy(SortedByCriteria(f, issues))

RECURSIVE BucketEntries(_, _, _, _, _)
\* grouped_data_holder after the loop of lines 545-593 has gone through n buckets
BucketEntries(f, name, sm, buckets, n) ==
    IF n = 0 THEN <<>>
    ELSE Append(BucketEntries(f, name, sm, buckets, n - 1),
                BucketEntry(f, name, sm, buckets[n].key.t, buckets[n].group))

AggregateResult(f, name, sm, buckets, raised) ==
    [raised |-> raised,
     value |-> IF raised # "" THEN <<>>
               ELSE BucketEntries(f, name, sm, buckets, Len(buckets))]

AggregateBuckets(f, name, sm, buckets) ==
    AggregateResult(f, name, sm, buckets,
                    FirstError([b \in DOMAIN buckets |->
                                   BucketError(sm, buckets[b].group)]))

\* lines 528-595 on the normalized issues: the report, or the exception
Aggregate(f, name, sm, issues) ==
    IF SortError(f, issues) # "" THEN Raised(SortError(f, issues), <<>>)
    ELSE AggregateBuckets(f, name, sm, Buckets(f, issues))

\* the sort_name that goes with a key function: 'week_issued' (the default
\* of line 521), 'month_maturing', 'month_announced', 'month_auctioned'
\* (lines 668-678) and their like
SortNameOf(f) ==
    f.base \o "_" \o
        (CASE f.attribute = "actual_maturity_pyobj" -> "maturing"
           [] f.attribute = "issueDate_pyobj" -> "issued"
           [] f.attribute = "auctionDate_pyobj" -> "auctioned"
           [] f.attribute = "announcementDate_pyobj" -> "announced")

(***************************************************************************)
(* The caller's list when produce_report ends.  The dicts that lines       *)
(* 412-426 and 458 write to are those of the list of line 524.             *)
(***************************************************************************)
\* the dict of line 525 being the caller's first dict with these items
CallerDict_Same(res_list, t) ==
    CHOOSE i \in DOMAIN res_list :
        \A j \in DOMAIN res_list : SortedItems(res_list[j]) = t => i <= j

\* the place in the caller's list of the dict that dict(t) of line 525 is:
\* dict(t) is a new dict, which is none of the caller's
CallerDict(res_list, t) == 0

RECURSIVE WrittenFrom(_, _)
\* the dicts of the list of line 524 when the loop of lines 404-426 has gone
\* through n of them or has raised before
WrittenFrom(issues, n) ==
    IF n = 0 THEN issues
    ELSE IF NormalizeAll(issues, n - 1).raised # "" THEN WrittenFrom(issues, n - 1)
    ELSE [WrittenFrom(issues, n - 1) EXCEPT ![n] = NormalizeIssue(issues[n]).value]

\* the issues of the terms that line 590 has been reached for in a bucket
PoppedInBucket(sm, groups) ==
    UNION {Range(groups[g].group) :
              g \in {h \in DOMAIN groups :
                        \A k \in 1..h : TermError(sm, groups[k].group) = ""}}

\* the issues that line 590 has been reached for when the loop of lines
\* 545-593 ends or raises
Popped(sm, buckets) ==
    UNION {PoppedInBucket(sm, TermGroups(buckets[b].group)) :
              b \in {c \in DOMAIN buckets :
                        /\ \A k \in 1..(c - 1) : BucketError(sm, buckets[k].group) = ""
                        /\ TermSortError(buckets[c].group) = ""}}

PoppedWhere(issues, popped) ==
    [i \in DOMAIN issues |->
        IF issues[i] \in popped THEN RemovePyobj(issues[i]) ELSE issues[i]]

\* the dicts of the list of line 524 when produce_report ends
ObjectsAfter(f, sm, issues, norm) ==
    IF norm.raised # "" THEN WrittenFrom(issues, Len(issues))
    ELSE IF SortError(f, norm.value) # "" THEN norm.value
    ELSE PoppedWhere(norm.value, Popped(sm, Buckets(f, norm.value)))

\* the keys lines 412, 425 and 426 add to a dict, in the order they are added
AddedKeys ==
    <<"issueDate_pyobj", "announcementDate_pyobj", "auctionDate_pyobj",
      "maturingDate_pyobj", "maturityDate_pyobj", "actual_maturity_pyobj",
      "actual_maturity">>

\* the items of a dict that had the items `items' and is now the dict d:
\* a key that was there keeps its place, an added key comes last
ItemsAfter(items, d) ==
    LET had == {items[i][1] : i \in DOMAIN items}
        kept == SelectSeq(items, LAMBDA item : item[1] \in DOMAIN d)
        added == SelectSeq(AddedKeys, LAMBDA key : key \in DOMAIN d /\ key \notin had)
    IN  [i \in DOMAIN kept |-> <<kept[i][1], d[kept[i][1]]>>]
            \o [i \in DOMAIN added |-> <<added[i], d[added[i]]>>]

\* the caller's list when produce_report ends: a dict of the caller is
\* written to when it is one of the dicts of line 524
ArgumentAfter(res_list, order, f, sm, issues, norm) ==
    [i \in DOMAIN res_list |->
        IF \E n \in DOMAIN order : CallerDict(res_list, order[n]) = i
        THEN ItemsAfter(res_list[i],
                        ObjectsAfter(f, sm, issues, norm)
                            [CHOOSE n \in DOMAIN order : CallerDict(res_list, order[n]) = i])
        ELSE res_list[i]]

(***************************************************************************)
(* The raw issues a call is given.                                         *)
(***************************************************************************)
Without(items, key) == SelectSeq(items, LAMBDA item : item[1] # key)

With(items, key, text) ==
    IF \E i \in DOMAIN items : items[i][1] = key
    THEN [i \in DOMAIN items |-> IF items[i][1] = key THEN <<key, Str(text)>> ELSE items[i]]
    ELSE Append(items, <<key, Str(text)>>)

Reversed(items) == [i \in DOMAIN items |-> items[Len(items) + 1 - i]]

SEP30 == "2018-09-30T00:00:00"
OCT01 == "2018-10-01T00:00:00"

BaseIssue ==
    << <<"cusip", Str("912828S68")>>,
       <<"securityTerm", Str("2-Year")>>,
       <<"offeringAmount", Str("500")>>,
       <<"issueDate", Str(SEP30)>>,
       <<"auctionDate", Str(SEP30)>>,
       <<"announcementDate", Str(SEP30)>>,
       <<"maturityDate", Str(OCT01)>>,
       <<"bidToCoverRatio", Str("2.5")>>,
       <<"soma_holding_amount", Str("7")>> >>

\* the two records of the re-opened issue: one carries maturingDate, the
\* other maturityDate
ReopenedIssue(date_attr) ==
    << <<"cusip", Str("912828XE5")>>,
       <<"securityTerm", Str("5-Year")>>,
       <<"offeringAmount", Str("1000000000")>>,
       <<date_attr, Str("2020-06-01T00:00:00")>> >>

RawIssues ==
    { BaseIssue,
      Reversed(BaseIssue),
      With(With(BaseIssue, "securityTerm", "10-Year"), "issueDate", OCT01),
      Without(BaseIssue, "offeringAmount"),
      With(BaseIssue, "offeringAmount", "abc"),
      With(BaseIssue, "soma_holding_amount", "n/a"),
      Without(BaseIssue, "maturityDate"),
      With(BaseIssue, "issueDate", "2018-09-30"),
      With(BaseIssue, "maturingDate", ""),
      With(BaseIssue, "maturingDate", SEP30),
      With(BaseIssue, "maturingDate", "2018-10-01T12:00:00"),
      With(BaseIssue, "maturingDate", "2018-10-02T00:00:00"),
      ReopenedIssue("maturingDate"),
      ReopenedIssue("maturityDate") }

Batches == UNION {[1..n -> RawIssues] : n \in 0..MaxRecs}

\* every calendar day of the years FirstYear..LastYear
Days ==
    {<<y, m, d, 0, 0, 0>> : y \in FirstYear..LastYear, m \in 1..12, d \in 1..31}
        \cap {t \in (FirstYear..LastYear) \X (1..12) \X (1..31) \X {0} \X {0} \X {0} :
                 t[3] <= DaysInMonth(t[1], t[2])}

NoFunc == [base |-> "", attribute |-> ""]
NoResult == Returned(<<>>)

(***************************************************************************)
(* Specification of produce_report.                                        *)
(***************************************************************************)
Init ==
    /\ results \in Batches
    /\ sort_criteria_func = NoFunc
    /\ sort_name = ""
    /\ soma = FALSE
    /\ deduped = <<>>
    /\ normalized = <<>>
    /\ outcome = "none"
    /\ report = <<>>
    /\ key_issue = <<>>
    /\ key_func = NoFunc
    /\ key_result = NoResult
    /\ today = None
    /\ as_of = None
    /\ self_as_of = None

\* produce_report ends: it returns agg.value or raises
Return(order, f, sm, issues, norm, agg) ==
    /\ results' = ArgumentAfter(results, order, f, sm, issues, norm)
    /\ sort_criteria_func' = f
    /\ sort_name' = SortNameOf(f)
    /\ soma' = sm
    /\ deduped' = issues
    /\ normalized' = norm.value
    /\ outcome' = IF norm.raised # "" THEN norm.raised
                  ELSE IF agg.raised # "" THEN agg.raised
                  ELSE "returned"
    /\ report' = agg.value
    /\ UNCHANGED <<key_issue, key_func, key_result, today, as_of, self_as_of>>

\* lines 528-595 run when _normalize_dates has returned
Call(order, issues, norm) ==
    \E f \in SortFuncs, sm \in BOOLEAN :
        Return(order, f, sm, issues, norm,
               IF norm.raised # "" THEN NoResult
               ELSE Aggregate(f, SortNameOf(f), sm, norm.value))

Normalize(order, deduped_results) ==
    Call(order, deduped_results, _normalize_dates(deduped_results))

\* report = produce_report(results, f, SortNameOf(f), sm), the set of line
\* 525 being iterated in any order.  produce_report keeps nothing from one
\* call to the next, so that a behaviour makes one call.
ProduceReport ==
    /\ outcome = "none"
    /\ \E order \in Orderings(DedupSet(results)) :
          Normalize(order, DedupedList(order, Len(order)))

Next == ProduceReport

Spec == Init /\ [][Next]_vars

(***************************************************************************)
(* Specification of the sort-key functions applied on their own.           *)
(***************************************************************************)
InitKeys ==
    /\ results = <<>>
    /\ sort_criteria_func = NoFunc
    /\ sort_name = ""
    /\ soma = FALSE
    /\ deduped = <<>>
    /\ normalized = <<>>
    /\ outcome = "none"
    /\ report = <<>>
    /\ \E a \in Attributes, day \in Days : key_issue = (a :> DateTime(day))
    /\ key_func = NoFunc
    /\ key_result = NoResult
    /\ today = None
    /\ as_of = None
    /\ self_as_of = None

\* key_result = f(key_issue)
ApplySortKey ==
    \E f \in SortFuncs :
        /\ key_func' = f
        /\ key_result' = IF SortKeyError(f, key_issue) # ""
                         THEN Raised(SortKeyError(f, key_issue), <<>>)
                         ELSE Returned(SortKey(f, key_issue))
        /\ UNCHANGED <<results, sort_criteria_func, sort_name, soma, deduped,
                       normalized, outcome, report, key_issue, today, as_of,
                       self_as_of>>

NextKeys == ApplySortKey

SpecKeys == InitKeys /\ [][NextKeys]_vars

(***************************************************************************)
(* Specification of the deduplication of lines 524-526 applied on its own. *)
(***************************************************************************)
\* deduped = [dict(t) for t in set([tuple(sorted(res.items())) for res in
\* results])], the set being iterated in any order
Dedup ==
    /\ outcome = "none"
    /\ \E order \in Orderings(DedupSet(results)) :
          deduped' = DedupedList(order, Len(order))
    /\ outcome' = "deduped"
    /\ UNCHANGED <<results, sort_criteria_func, sort_name, soma, normalized,
                   report, key_issue, key_func, key_result, today, as_of,
                   self_as_of>>

NextDedup == Dedup

SpecDedup == Init /\ [][NextDedup]_vars

(***************************************************************************)
(* FedSoma.__init__ (lines 150-166) and _check_date (lines 110-120).       *)
(***************************************************************************)
fed_request_date_fmt == "%Y-%m-%d"

\* the days before January 1st of year y, counted from 0001-01-01
DaysBeforeYear(y) ==
    (y - 1) * 365 + ((y - 1) \div 4) - ((y - 1) \div 100) + ((y - 1) \div 400)

\* date.toordinal(): 0001-01-01 is day 1
toordinal(dt) == DaysBeforeYear(dt.t[1]) + tm_yday(dt)

\* datetime.weekday(): Monday is 0
weekday(dt) == (toordinal(dt) + 6) % 7

\* the day before, at the same time of day
DayBefore(t) ==
    IF t[3] > 1 THEN [t EXCEPT ![3] = t[3] - 1]
    ELSE IF t[2] > 1
    THEN [t EXCEPT ![2] = t[2] - 1, ![3] = DaysInMonth(t[1], t[2] - 1)]
    ELSE [t EXCEPT ![1] = t[1] - 1, ![2] = 12, ![3] = 31]

RECURSIVE Minus(_, _)
\* dt - datetime.timedelta(days)
Minus(dt, days) ==
    IF days = 0 THEN dt ELSE Minus(DateTime(DayBefore(dt.t)), days - 1)

\* str(value) of None and of a str
str_(value) == IF value.type = "NoneType" THEN "None" ELSE value.s

RECURSIVE FirstWordFrom(_, _)
FirstWordFrom(text, i) ==
    IF i > Len(text) \/ Char(text, i) = " " THEN SubSeq(text, 1, i - 1)
    ELSE FirstWordFrom(text, i + 1)

\* text.split()[0] of a text that does not begin with whitespace
FirstWord(text) == FirstWordFrom(text, 1)

\* a text of the form dddd-dd-dd
HasDayForm(text) ==
    /\ Len(text) = 10
    /\ Char(text, 5) = "-" /\ Char(text, 8) = "-"
    /\ \A i \in (1..10) \ {5, 8} : IsDigit(Char(text, i))

\* datetime.strptime(text, '%Y-%m-%d') does not raise
strptime_day_ok(text) ==
    /\ HasDayForm(text)
    /\ IsDateTime(<<Field(text, 1, 4), Field(text, 6, 7), Field(text, 9, 10), 0, 0, 0>>)

\* _check_date(date, '%Y-%m-%d'), lines 110-120: a str is returned as it is
\* when it parses, a date is rendered, anything else falls off the end
_check_date(date) ==
    IF date.type = "str"
    THEN (IF strptime_day_ok(date.s) THEN Returned(date) ELSE Raised("ValueError", None))
    ELSE IF date.type = "datetime" THEN Returned(Str(strftime_(date)))
    ELSE Returned(None)

\* lines 157-164: the as_of that is checked when none was passed in
LatestUpdate(now, given) ==
    IF weekday(now) < 2 THEN Minus(now, 7 - weekday(now))
    ELSE IF weekday(now) > 2 THEN Minus(now, weekday(now) - 2)
    ELSE Str(FirstWord(str_(given)))

\* the as_of arguments a construction is given
AsOfArgs ==
    {None, Str("2018-09-26"), Str("09/26/2018"), DateTime(<<2018, 9, 26, 0, 0, 0>>)}

TimesOfDay == {<<0, 0, 0>>, <<23, 59, 59>>}

InitSoma ==
    /\ results = <<>>
    /\ sort_criteria_func = NoFunc
    /\ sort_name = ""
    /\ soma = FALSE
    /\ deduped = <<>>
    /\ normalized = <<>>
    /\ outcome = "none"
    /\ report = <<>>
    /\ key_issue = <<>>
    /\ key_func = NoFunc
    /\ key_result = NoResult
    /\ \E day \in Days, time \in TimesOfDay :
          today = DateTime(<<day[1], day[2], day[3], time[1], time[2], time[3]>>)
    /\ as_of = None
    /\ self_as_of = None

\* line 166: self.as_of = self._check_date(as_of, self.fed_request_date_fmt)
SetAsOf(given, checked) ==
    /\ as_of' = given
    /\ self_as_of' = checked.value
    /\ outcome' = IF checked.raised # "" THEN checked.raised ELSE "constructed"
    /\ UNCHANGED <<results, sort_criteria_func, sort_name, soma, deduped,
                   normalized, report, key_issue, key_func, key_result, today>>

\* FedSoma(as_of=given)
Construct ==
    /\ outcome = "none"
    /\ \E given \in AsOfArgs :
          SetAsOf(given, _check_date(IF given = None THEN LatestUpdate(today, given)
                                     ELSE given))

NextSoma == Construct

SpecSoma == InitSoma /\ [][NextSoma]_vars

(***************************************************************************)
(* Properties.                                                             *)
(***************************************************************************)
Called == outcome # "none"

\* the raw issue has a date under attr (the field is there and not empty)
HasDate(raw, attr) == \E i \in DOMAIN raw : raw[i][1] = attr /\ raw[i][2].s # ""

\* the text a raw issue carries under attr
TextOf(raw, attr) == (CHOOSE item \in Range(raw) : item[1] = attr)[2].s

HasField(raw, attr) == \E i \in DOMAIN raw : raw[i][1] = attr

\* the YYYY-MM-DD part of a date text of the source format, and its date
DayText(text) == SubSeq(text, 1, 10)
DayOf(text) == <<Field(text, 1, 4), Field(text, 6, 7), Field(text, 9, 10)>>

DictHasDate(d, attr) == attr \in DOMAIN d /\ d[attr].s # ""

\* the YYYY-MM-DD text of the maturity that the dict d, as it was before
\* normalization, is due
ExpectedMaturity(d) ==
    IF DictHasDate(d, "maturingDate") /\ DictHasDate(d, "maturityDate")
    THEN (IF TupleLess(DayOf(d["maturingDate"].s), DayOf(d["maturityDate"].s))
          THEN DayText(d["maturityDate"].s) ELSE DayText(d["maturingDate"].s))
    ELSE IF DictHasDate(d, "maturingDate") THEN DayText(d["maturingDate"].s)
    ELSE DayText(d["maturityDate"].s)

\* C1: after _normalize_dates, every record with at least one of
\* maturingDate / maturityDate has for actual_maturity the later of the two
\* dates when both are there and the one that is there otherwise, and the
\* public actual_maturity is the YYYY-MM-DD text of that date
C1_ActualMaturity ==
    \A i \in DOMAIN normalized :
        (DictHasDate(deduped[i], "maturingDate") \/ DictHasDate(deduped[i], "maturityDate"))
            => /\ "actual_maturity" \in DOMAIN normalized[i]
               /\ normalized[i]["actual_maturity"] = Str(ExpectedMaturity(deduped[i]))
               /\ SubSeq(normalized[i]["actual_maturity_pyobj"].t, 1, 3)
                      = DayOf(ExpectedMaturity(deduped[i]))

\* a normalized record whose maturingDate is a later day than its maturityDate
C1_Witness ==
    \E i \in DOMAIN normalized :
        /\ DictHasDate(deduped[i], "maturingDate")
        /\ DictHasDate(deduped[i], "maturityDate")
        /\ TupleLess(DayOf(deduped[i]["maturityDate"].s), DayOf(deduped[i]["maturingDate"].s))
        /\ normalized[i]["actual_maturity"].s = "2018-10-02"

\* C2: the weekly key function returns (year, floor((day_of_year - 1) / 7) + 1)
C2_WeekBucket ==
    (key_func.base = "week" /\ key_result.raised = "" /\ key_result.value # <<>>)
        => key_result.value
               = <<key_issue[key_func.attribute].t[1],
                   ((tm_yday(key_issue[key_func.attribute]) - 1) \div 7) + 1>>

RECURSIVE SeqSum(_, _)
SeqSum(numbers, n) == IF n = 0 THEN 0 ELSE SeqSum(numbers, n - 1) + numbers[n]

\* the Term Entries of a Bucket Entry, in order, as <<term, Term Entry>>
TermsOf(bucket) == bucket[sort_name \o "_issues"]

TermTotals(bucket) ==
    [t \in DOMAIN TermsOf(bucket) |-> TermsOf(bucket)[t][2][sort_name \o "_term_total"]]

MemberAmounts(entry) ==
    [m \in DOMAIN entry["issues"] |-> Int_(entry["issues"][m]["offeringAmount"])]

\* C3: in every report, <sort_name>_total of a Bucket Entry is the sum of
\* <sort_name>_term_total over its Term Entries, and <sort_name>_term_total
\* of a Term Entry is the sum of int(offeringAmount) over its 'issues'
C3_TotalsLaw ==
    \A b \in DOMAIN report :
        /\ report[b][sort_name \o "_total"]
               = SeqSum(TermTotals(report[b]), Len(TermsOf(report[b])))
        /\ \A t \in DOMAIN TermsOf(report[b]) :
               TermsOf(report[b])[t][2][sort_name \o "_term_total"]
                   = SeqSum(MemberAmounts(TermsOf(report[b])[t][2]),
                            Len(TermsOf(report[b])[t][2]["issues"]))

\* a report with a Bucket Entry of two Term Entries
C3_Witness ==
    /\ outcome = "returned"
    /\ \E b \in DOMAIN report :
          /\ Len(TermsOf(report[b])) = 2
          /\ report[b][sort_name \o "_total"] = 1000

\* the raw issue carries a number under field
HasAmount(raw, field) == HasField(raw, field) /\ AllDigits(TextOf(raw, field))

\* C4: a record without offeringAmount or with a non-numeric one, or (soma)
\* without soma_holding_amount or with a non-numeric one, makes the call
\* fail: no report is returned
C4_MissingAmountFails ==
    (Called /\ \E i \in DOMAIN results :
                  \/ ~HasAmount(results[i], "offeringAmount")
                  \/ (soma /\ ~HasAmount(results[i], "soma_holding_amount")))
        => (outcome # "returned" /\ report = <<>>)

\* a call that fails for nothing but a missing offeringAmount, next to a
\* record that has its amount
C4_Witness ==
    /\ outcome = "KeyError"
    /\ ~soma
    /\ sort_criteria_func.attribute = "issueDate_pyobj"
    /\ Len(results) = 2
    /\ ~HasField(results[1], "offeringAmount")
    /\ HasAmount(results[2], "offeringAmount")

\* every date of the raw issue that is there and not empty parses
DateKeys == Range(date_keys_to_normalize)

\* the texts the raw issues carry under a date field, and those that parse
DateTexts ==
    UNION {{raw[i][2].s : i \in {j \in DOMAIN raw : raw[j][1] \in DateKeys}} :
              raw \in RawIssues}
ParsedTexts == {text \in DateTexts : strptime_ok(text)}

DatesParse(raw) ==
    \A i \in DOMAIN raw :
        (raw[i][1] \in DateKeys /\ raw[i][2].s # "") => raw[i][2].s \in ParsedTexts

\* but for its maturity, the raw issue has what the call needs
WellFormedButMaturity(raw) ==
    /\ DatesParse(raw)
    /\ HasField(raw, "securityTerm")
    /\ HasAmount(raw, "offeringAmount")
    /\ soma => HasAmount(raw, "soma_holding_amount")
    /\ \A a \in {"issueDate", "auctionDate", "announcementDate"} :
           sort_criteria_func.attribute = a \o "_pyobj" => HasDate(raw, a)

\* C5: a record with neither maturingDate nor maturityDate does not make
\* normalization or produce_report fail
C5_NeitherDateTolerated ==
    (/\ Called
     /\ \E i \in DOMAIN results :
           ~HasField(results[i], "maturingDate") /\ ~HasField(results[i], "maturityDate")
     /\ \A i \in DOMAIN results : WellFormedButMaturity(results[i]))
        => outcome = "returned"

DictItems(d) == {<<k, d[k]>> : k \in DOMAIN d}

\* C6: deduplication collapses two input records if and only if they have
\* the same field names with equal values, whatever the enumeration order:
\* every input record has exactly one survivor with its fields and values,
\* and every survivor is an input record
C6_Dedup ==
    Called =>
        /\ \A i \in DOMAIN results :
               Cardinality({k \in DOMAIN deduped :
                               DictItems(deduped[k]) = Range(results[i])}) = 1
        /\ \A k \in DOMAIN deduped :
               \E i \in DOMAIN results : DictItems(deduped[k]) = Range(results[i])

\* two input records with the same fields in another enumeration order have
\* been collapsed into one
C6_Witness ==
    /\ Called
    /\ Len(results) = 2
    /\ results[1] # results[2]
    /\ Range(results[1]) = Range(results[2])
    /\ Len(deduped) = 1

MonthMaturity == [base |-> "month", attribute |-> "actual_maturity_pyobj"]

\* the member record the re-opened issue is due in the report
ReopenedMember(date_attr) ==
    ToDict(With(With(ReopenedIssue(date_attr), date_attr, "2020-06-01"),
                "actual_maturity", "2020-06-01"))

\* C7: the two records of the re-opened issue, one with maturingDate and
\* one with maturityDate 2020-06-01T00:00:00, grouped by month of maturity,
\* are not merged and give one Bucket Entry "2020-6" with the one term
\* "5-Year", both records as its members and a total of 2000000000
C7_Reopened ==
    (/\ Called
     /\ ~soma
     /\ sort_criteria_func = MonthMaturity
     /\ Len(results) = 2
     /\ Range(results) = {ReopenedIssue("maturingDate"), ReopenedIssue("maturityDate")})
        => /\ outcome = "returned"
           /\ Len(deduped) = 2
           /\ Len(report) = 1
           /\ report[1]["timeframe"] = "2020-6"
           /\ report[1][sort_name \o "_total"] = 2000000000
           /\ Len(TermsOf(report[1])) = 1
           /\ TermsOf(report[1])[1][1] = "5-Year"
           /\ Len(TermsOf(report[1])[1][2]["issues"]) = 2
           /\ Range(TermsOf(report[1])[1][2]["issues"])
                  = {ReopenedMember("maturingDate"), ReopenedMember("maturityDate")}

\* the call of C7 has returned
C7_Witness ==
    /\ outcome = "returned"
    /\ ~soma
    /\ sort_criteria_func = MonthMaturity
    /\ results = <<ReopenedIssue("maturingDate"), ReopenedIssue("maturityDate")>>

\* C8: a date field that is there, not empty and does not parse under
\* YYYY-MM-DDTHH:MM:SS makes the whole call fail: no report is returned
C8_BadDateFails ==
    Called =>
        \/ (outcome # "returned" /\ report = <<>> /\ normalized = <<>>)
        \/ \A i \in DOMAIN results : DatesParse(results[i])

\* a call that failed on a date that does not parse, next to a record
\* that lacks nothing
C8_Witness ==
    /\ outcome = "ValueError"
    /\ Len(results) = 2
    /\ ~DatesParse(results[1])
    /\ DatesParse(results[2])
    /\ results[2] = BaseIssue

RECURSIVE SplitFrom(_, _, _)
\* text.split('-') from the i-th character on, word being the current part
SplitFrom(text, i, word) ==
    IF i > Len(text) THEN <<word>>
    ELSE IF Char(text, i) = "-" THEN <<word>> \o SplitFrom(text, i + 1, "")
    ELSE SplitFrom(text, i + 1, word \o Char(text, i))

\* the Bucket Key a timeframe renders
KeyOfTimeframe(text) ==
    LET parts == SplitFrom(text, 1, "")
    IN  [p \in DOMAIN parts |-> DigitsToInt(parts[p], Len(parts[p]))]

\* C9: in every report the Bucket Entries are in strictly ascending order
\* of their keys compared as tuples of int, and the Term Entries of a
\* Bucket Entry in strictly ascending order of securityTerm compared as str
C9_Order ==
    \A b \in DOMAIN report :
        /\ b > 1 => TupleLess(KeyOfTimeframe(report[b - 1]["timeframe"]),
                              KeyOfTimeframe(report[b]["timeframe"]))
        /\ \A t \in DOMAIN TermsOf(report[b]) :
               t > 1 => StrLess(TermsOf(report[b])[t - 1][1], TermsOf(report[b])[t][1])

\* a report where (2018, 9) comes before (2018, 10)
C9_Witness ==
    /\ outcome = "returned"
    /\ Len(report) = 2
    /\ report[1]["timeframe"] = "2018-9"
    /\ report[2]["timeframe"] = "2018-10"

\* the member records of a report
Members ==
    UNION {UNION {Range(TermsOf(report[b])[t][2]["issues"]) :
                     t \in DOMAIN TermsOf(report[b])} : b \in DOMAIN report}

\* C10: no member record of a report has a field whose name ends in
\* '_pyobj', and every other field of the normalized record, actual_maturity
\* and the rewritten dates among them, is still there
C10_NoHelpers ==
    \A m \in Members :
        /\ \A k \in DOMAIN m : ~EndsWith(k, "_pyobj")
        /\ "actual_maturity" \in DOMAIN m
        /\ \E i \in DOMAIN normalized :
              /\ DOMAIN m = {k \in DOMAIN normalized[i] : ~EndsWith(k, "_pyobj")}
              /\ \A k \in DOMAIN m : m[k] = normalized[i][k]

\* a report with a member whose normalized record had helpers
C10_Witness ==
    /\ outcome = "returned"
    /\ Members # {}
    /\ \A i \in DOMAIN normalized :
          {"actual_maturity_pyobj", "issueDate_pyobj"} \subseteq DOMAIN normalized[i]

\* the items of a dict, in one of the orders they can be enumerated in
RECURSIVE Enumerated(_)
Enumerated(items) ==
    IF items = {} THEN <<>>
    ELSE LET item == CHOOSE item \in items : TRUE
         IN  <<item>> \o Enumerated(items \ {item})

ItemsOf(d) == Enumerated(DictItems(d))

\* the list res_list with its records in the order p
Permuted(res_list, p) == [i \in DOMAIN res_list |-> res_list[p[i]]]

\* the set once is what deduplication leaves of res_list and of deduped_list
SameSurvivors(once, res_list, deduped_list) ==
    /\ Range(deduped_list) = {ToDict(t) : t \in once}
    /\ DedupSet([k \in DOMAIN deduped_list |-> ItemsOf(deduped_list[k])]) = once
    /\ \A p \in Permutations(DOMAIN res_list) : DedupSet(Permuted(res_list, p)) = once
    /\ \A i \in DOMAIN res_list : DedupSet(Append(res_list, res_list[i])) = once

\* C11: deduplication is idempotent and order-insensitive: the set of
\* records that survive is the same when the step is applied to its own
\* output, to any permutation of the input, and to the input with any of
\* its records repeated once more
C11_DedupLaws ==
    outcome = "deduped" => SameSurvivors(DedupSet(results), results, deduped)

\* two different records have both survived
C11_Witness ==
    /\ outcome = "deduped"
    /\ Len(results) = 2
    /\ Range(results[1]) # Range(results[2])
    /\ Len(deduped) = 2
    /\ DedupSet(<<results[2], results[1], results[2]>>) = DedupSet(results)

\* what lines 527-595 return for the key function f when the set of line
\* 525 is iterated in the order `order'
ReportOf(order, f, sm) ==
    Aggregate(f, SortNameOf(f), sm,
              _normalize_dates(DedupedList(order, Len(order))).value).value

\* C12: the report does not depend on the order of the raw records nor on
\* the order in which the deduplication emits them: whatever that order,
\* the call returns the same Bucket Entries in the same order, with the
\* same Term Entries, totals and members in the same order
C12_Deterministic ==
    outcome = "returned" =>
        \A order \in Orderings(DedupSet(results)) :
            ReportOf(order, sort_criteria_func, soma) = report

\* the days from today back to six days before today
LastSevenDays == {Minus(today, back) : back \in 0..6}

\* C13: constructed without an as_of, on whatever weekday, FedSoma is
\* constructed and its as_of is the YYYY-MM-DD text of the most recent
\* Wednesday on or before today
C13_LatestWednesday ==
    (outcome # "none" /\ today # None /\ as_of = None)
        => /\ outcome = "constructed"
           /\ \E day \in LastSevenDays :
                 weekday(day) = 2 /\ self_as_of = Str(strftime_(day))

\* the places <<bucket, term, member>> of a report
Places ==
    {p \in (DOMAIN report) \X (1..MaxRecs) \X (1..MaxRecs) :
        /\ p[2] \in DOMAIN TermsOf(report[p[1]])
        /\ p[3] \in DOMAIN TermsOf(report[p[1]])[p[2]][2]["issues"]}

MemberAt(p) == TermsOf(report[p[1]])[p[2]][2]["issues"][p[3]]

\* the lists <<bucket, term>> in which the normalized issue is a member
ListsOf(issue) == {<<p[1], p[2]>> : p \in {q \in Places : MemberAt(q) = RemovePyobj(issue)}}

\* the lists <<bucket, term>> the normalized issue is due in: those of its
\* rendered bucket key and of its securityTerm
ListsDue(issue) ==
    {l \in (DOMAIN report) \X (1..MaxRecs) :
        /\ l[2] \in DOMAIN TermsOf(report[l[1]])
        /\ report[l[1]]["timeframe"]
               = sort_by_aggregation_normalization(SortKey(sort_criteria_func, issue))
        /\ TermsOf(report[l[1]])[l[2]][1] = issue["securityTerm"].s}

BucketTotals == [b \in DOMAIN report |-> report[b][sort_name \o "_total"]]

OfferingAmounts == [i \in DOMAIN deduped |-> Int_(deduped[i]["offeringAmount"])]

\* C14: the 'issues' lists of a returned report partition the distinct
\* input records: every one of them is a member of exactly one list, the
\* one of the Bucket Entry of its rendered bucket key and of the Term Entry
\* of its securityTerm, the lists have no other member, and the bucket
\* totals add up to the sum of int(offeringAmount) over the distinct records
C14_Partition ==
    outcome = "returned" =>
        /\ Len(normalized) = Cardinality({Range(results[i]) : i \in DOMAIN results})
        /\ Cardinality(Places) = Len(normalized)
        /\ \A i \in DOMAIN normalized :
               /\ Cardinality(ListsDue(normalized[i])) = 1
               /\ ListsOf(normalized[i]) = ListsDue(normalized[i])
        /\ \A p \in Places :
               \E i \in DOMAIN normalized : MemberAt(p) = RemovePyobj(normalized[i])
        /\ SeqSum(BucketTotals, Len(report)) = SeqSum(OfferingAmounts, Len(deduped))

\* a report of two records that share their bucket and their term
C14_Witness ==
    /\ outcome = "returned"
    /\ Len(normalized) = 2
    /\ Len(report) = 1
    /\ Places = {<<1, 1, 1>>, <<1, 1, 2>>}
    /\ report[1][sort_name \o "_total"] = 1000

\* C15: produce_report leaves its argument as it was, whether it returns or
\* raises: the caller's list has the same records in the same order, and
\* no record has a field added, rewritten or removed
C15_ArgumentUnchanged == [][results' = results]_vars

\* a call has returned a report whose member has its issueDate rewritten
\* and an actual_maturity, and the caller's record is the raw record still
C15_Witness ==
    /\ outcome = "returned"
    /\ results = <<BaseIssue>>
    /\ Len(normalized) = 1
    /\ normalized[1]["issueDate"] = Str("2018-09-30")
    /\ "actual_maturity" \in DOMAIN normalized[1]
    /\ TextOf(results[1], "issueDate") = SEP30

====
